---- MODULE Spec2Model ----
(***************************************************************************)
(* Model of sound.c (SGDK): the main-processor side of the Z80 sound       *)
(* driver protocol.  One facade function = one action, executed statement  *)
(* by statement (pc), so that the co-processor can interleave whenever the *)
(* bus is not held.  The register window is modelled byte by byte.         *)
(***************************************************************************)
EXTENDS Integers, Sequences, FiniteSets, TLC

(* ------------------------------------------------------------------ *)
(* Bounds                                                               *)
(* ------------------------------------------------------------------ *)
\* number of facade calls in one behaviour of Spec
MaxOps == 2
\* number of startPlay calls in one behaviour of SpecCodec
MaxCodecOps == 1
\* number of automatic-channel startPlay calls in one behaviour of SpecAuto
MaxAutoOps == 5
MaxWavOps == 1
MaxVolumeOps == 2
MaxQueryOps == 5
MaxLiveOps == 2

(* ------------------------------------------------------------------ *)
(* Program constants                                                    *)
(* ------------------------------------------------------------------ *)
Z80_DRIVER_PCM      == "PCM"
Z80_DRIVER_2ADPCM   == "2ADPCM"
Z80_DRIVER_4PCM     == "4PCM"
Z80_DRIVER_4PCM_ENV == "4PCM_ENV"
Z80_DRIVER_MVS      == "MVS"
Z80_DRIVER_TFM      == "TFM"
Drivers == {Z80_DRIVER_PCM, Z80_DRIVER_2ADPCM, Z80_DRIVER_4PCM,
            Z80_DRIVER_4PCM_ENV, Z80_DRIVER_MVS, Z80_DRIVER_TFM}

\* z80_ctrl.h / sound.h values
Z80_DRV_COM_PLAY         == 1
Z80_DRV_STAT_PLAYING     == 1
Z80_DRV_STAT_PLAYING_SFT == 0
SOUND_PCM_CH_AUTO        == 65535
SOUND_MVS_SILENCE        == 0
SOUND_MVS_LOOP           == 1
SOUND_MVS_ONCE           == 2

\* sizeof(smp_null), sizeof(smp_null_pcm)
smp_null_size        == 256
smp_null_pcm_size    == 128

\* bytes of the parameter region reached from Z80_DRV_PARAMS
ParamsSize == 36

(* ------------------------------------------------------------------ *)
(* C integer arithmetic                                                 *)
(* ------------------------------------------------------------------ *)
Pow2(n) == 2 ^ n
Bit(x, i) == (x \div Pow2(i)) % 2
\* x >> n, x << n on unsigned values
Shr(x, n) == x \div Pow2(n)
Shl(x, n) == x * Pow2(n)
\* bitwise operators on 16-bit operands (wide enough for u8 and u16)
BitAnd(a, b) ==
    LET f[i \in 0..16] ==
            IF i = 16 THEN 0
            ELSE (IF Bit(a, i) = 1 /\ Bit(b, i) = 1 THEN Pow2(i) ELSE 0) + f[i + 1]
    IN f[0]
BitOr(a, b) ==
    LET f[i \in 0..16] ==
            IF i = 16 THEN 0
            ELSE (IF Bit(a, i) = 1 \/ Bit(b, i) = 1 THEN Pow2(i) ELSE 0) + f[i + 1]
    IN f[0]
\* ~m seen through a u8 store
BitNot8(m) == 255 - (m % 256)
\* conversion of a value to u8 on assignment
U8(x) == x % 256

\* u32 values (addresses, lengths) are kept as two 16-bit halves
W32(hi, lo) == [hi |-> hi, lo |-> lo]
Bit32(x, i) == IF i < 16 THEN Bit(x.lo, i) ELSE IF i < 32 THEN Bit(x.hi, i - 16) ELSE 0
\* the u8 stored by  pb[k] = x >> n  : bits n .. n+7 of x
ShrU8(x, n) ==
    LET f[j \in 0..8] == IF j = 8 THEN 0 ELSE Bit32(x, n + j) * Pow2(j) + f[j + 1]
    IN f[0]

\* the null samples (smp_null.h, smp_null_pcm.h): link-time addresses 0x010200, 0x010380
smp_null     == W32(1, 512)
smp_null_pcm == W32(1, 896)

(* ------------------------------------------------------------------ *)
(* State                                                                *)
(* ------------------------------------------------------------------ *)
VARIABLES
    driver,     \* firmware currently loaded in the Z80
    busHeld,    \* TRUE while the 68000 owns the Z80 bus
    z80reset,   \* TRUE while the Z80 is held in reset
    command,    \* byte at Z80_DRV_COMMAND
    status,     \* bytes at Z80_DRV_STATUS: status[0] play bits, status[1] loop bits
    params,     \* bytes at Z80_DRV_PARAMS + 0 .. ParamsSize-1
    mvs,        \* bytes at 0xA0151A .. 0xA0151D
    tfm,        \* bytes at 0xA01FFC .. 0xA01FFF
    op,         \* the facade call in progress (or the last one): function and arguments
    pc,         \* statement the call is at, "idle" between calls
    local,      \* the C locals of the call: status, ch, ret / volume
    log,        \* collaborator calls and window accesses of the call, in order
    pre,        \* window contents when the call acquired the bus
    returned,   \* TRUE in the state a call returns into
    nops,       \* facade calls started so far
    run,        \* the run of successive automatic-channel startPlay calls since Init
    asked,      \* what the callers asked last: per channel, for the volume, for MVS
    wav         \* the WAV conversion in progress (SoundUtil.getRawDataFromWAV)

win  == <<command, status, params, mvs, tfm>>
vars == <<driver, busHeld, z80reset, command, status, params, mvs, tfm,
          op, pc, local, log, pre, returned, nops, run, asked, wav>>

Snapshot == [command |-> command, status |-> status, params |-> params,
             mvs |-> mvs, tfm |-> tfm]

\* one entry of the log; held = bus ownership when the event happens
Ev(e, reg, off) == [ev |-> e, reg |-> reg, off |-> off, held |-> busHeld]

NoLocal == [status |-> 0, ch |-> 0, ret |-> 0]

\* a facade call: function name and arguments (unused arguments are 0)
Req(fn, sample, len, channel, loop, volume) ==
    [fn |-> fn, sample |-> sample, len |-> len, channel |-> channel,
     loop |-> loop, volume |-> volume, rate |-> 0, pan |-> 0]

\* history of the calls, kept for the properties only (no statement reads it):
\* play[c]   loop argument of the last completed startPlay on channel c,
\*           Stopped after a later stopPlay(c), Never before any of them
\* volume[c] volume argument of the last completed setVolume(c, v), or Never
\* mvs       loop argument of the last completed MVS startPlay, Stopped, Never
\* prev      the call before the current one when it was an automatic-channel
\*           startPlay, with the channel it was given
Never   == -1
Stopped == -2
NoPrev  == [fn |-> "", ch |-> Never]
NoAsked == [play |-> [c \in 0..3 |-> Never], volume |-> [c \in 0..3 |-> Never],
            mvs |-> Never, prev |-> NoPrev]

Completed(h) ==
    CASE op.fn = "SND_startPlay_PCM" -> [h EXCEPT !.play[0] = op.loop]
      [] op.fn = "SND_stopPlay_PCM"  -> [h EXCEPT !.play[0] = Stopped]
      [] op.fn \in {"SND_startPlay_2ADPCM", "SND_startPlay_4PCM",
                    "SND_startPlay_4PCM_ENV"} -> [h EXCEPT !.play[local.ch] = op.loop]
      [] op.fn \in {"SND_stopPlay_2ADPCM", "SND_stopPlay_4PCM",
                    "SND_stopPlay_4PCM_ENV"} -> [h EXCEPT !.play[op.channel] = Stopped]
      [] op.fn = "SND_setVolume_4PCM_ENV" -> [h EXCEPT !.volume[op.channel] = op.volume]
      [] op.fn = "SND_startPlay_MVS" -> [h EXCEPT !.mvs = op.loop]
      [] op.fn = "SND_stopPlay_MVS"  -> [h EXCEPT !.mvs = Stopped]
      [] OTHER -> h

Goto(next) == /\ pc' = next
              /\ returned' = (next = "idle")
              /\ asked' = IF next = "idle" THEN Completed(asked) ELSE asked
              /\ UNCHANGED wav

(* ------------------------------------------------------------------ *)
(* Collaborators (z80_ctrl.h)                                           *)
(* ------------------------------------------------------------------ *)
\* Z80_loadDriver(drv, waitReady): uploads the firmware only if another one is loaded
Z80_loadDriver(drv) ==
    /\ driver' = drv
    /\ log' = log \o (IF driver = drv THEN <<Ev("load", drv, 0)>>
                      ELSE <<Ev("load", drv, 0), Ev("reload", drv, 0)>>)

Z80_requestBus ==
    /\ busHeld' = TRUE
    /\ log' = Append(log, Ev("acquire", "-", 0))
    /\ pre' = Snapshot

Z80_releaseBus ==
    /\ busHeld' = FALSE
    /\ log' = Append(log, Ev("release", "-", 0))

Z80_startReset ==
    /\ z80reset' = TRUE
    /\ log' = Append(log, Ev("startReset", "-", 0))

Z80_endReset ==
    /\ z80reset' = FALSE
    /\ log' = Append(log, Ev("endReset", "-", 0))

\* the three statements every function but SND_startPlay_TFM shares
LoadStep(drv, next) ==
    /\ pc = "load"
    /\ Z80_loadDriver(drv)
    /\ Goto(next)
    /\ UNCHANGED <<busHeld, z80reset, win, op, local, pre, nops, run>>

\* the opening Z80_requestBus() left out
RequestStep_missing(next) ==
    /\ pc = "request"
    /\ Goto(next)
    /\ UNCHANGED <<driver, busHeld, z80reset, win, op, local, log, pre, nops, run>>

RequestStep(next) ==
    /\ pc = "request"
    /\ Z80_requestBus
    /\ Goto(next)
    /\ UNCHANGED <<driver, z80reset, win, op, local, nops, run>>

\* the closing Z80_releaseBus() left out
ReleaseStep_missing(next) ==
    /\ pc = "release"
    /\ Goto(next)
    /\ UNCHANGED <<driver, busHeld, z80reset, win, op, local, log, pre, nops, run>>

ReleaseStep(next) ==
    /\ pc = "release"
    /\ Z80_releaseBus
    /\ Goto(next)
    /\ UNCHANGED <<driver, z80reset, win, op, local, pre, nops, run>>

(* ------------------------------------------------------------------ *)
(* Register protocol: parameter encoding, channel scan                  *)
(* ------------------------------------------------------------------ *)
\* the 256-byte rule applied whatever the driver's boundary is
WriteParams_shift8(p, base, addr, len, s) ==
    [p EXCEPT ![base]     = ShrU8(addr, 8),
              ![base + 1] = ShrU8(addr, 16),
              ![base + 2] = ShrU8(len, 8),
              ![base + 3] = ShrU8(len, 16)]

\* the two bytes of each value stored high byte first
WriteParams_swapped(p, base, addr, len, s) ==
    [p EXCEPT ![base]     = ShrU8(addr, s + 8),
              ![base + 1] = ShrU8(addr, s),
              ![base + 2] = ShrU8(len, s + 8),
              ![base + 3] = ShrU8(len, s)]

\* pb[0] = addr >> s; pb[1] = addr >> (s+8); pb[2] = len >> s; pb[3] = len >> (s+8);
\* with pb = Z80_DRV_PARAMS + base
WriteParams(p, base, addr, len, s) ==
    [p EXCEPT ![base]     = ShrU8(addr, s),
              ![base + 1] = ShrU8(addr, s + 8),
              ![base + 2] = ShrU8(len, s),
              ![base + 3] = ShrU8(len, s + 8)]

ParamEvents(base) ==
    <<Ev("write", "params", base), Ev("write", "params", base + 1),
      Ev("write", "params", base + 2), Ev("write", "params", base + 3)>>

\* the command byte assigned instead of or-ed
PlayCommand_assign(cmd, ch) == U8(Shl(Z80_DRV_COM_PLAY, ch))

\* the play bit toggled: a pulse still pending for the channel is withdrawn
PlayCommand_toggle(cmd, ch) ==
    IF Bit(cmd, ch) = 1 THEN cmd - Pow2(ch) ELSE U8(cmd + Shl(Z80_DRV_COM_PLAY, ch))

\* *pb |= (Z80_DRV_COM_PLAY << ch);  with pb = Z80_DRV_COMMAND
PlayCommand(cmd, ch) == U8(BitOr(cmd, Shl(Z80_DRV_COM_PLAY, ch)))

\* the loop byte assigned: the loop bits of the other channels are dropped
LoopFlag_assign(st1, loop, ch) ==
    IF loop # 0 THEN U8(Shl(Z80_DRV_STAT_PLAYING, ch)) ELSE 0

\* the loop bit only ever set: a one-shot start leaves the bit of an earlier loop
LoopFlag_setOnly(st1, loop, ch) ==
    IF loop # 0 THEN U8(BitOr(st1, Shl(Z80_DRV_STAT_PLAYING, ch)))
    ELSE st1

\* if (loop) pb[1] |= (Z80_DRV_STAT_PLAYING << ch);
\* else pb[1] &= ~(Z80_DRV_STAT_PLAYING << ch);
LoopFlag(st1, loop, ch) ==
    IF loop # 0 THEN U8(BitOr(st1, Shl(Z80_DRV_STAT_PLAYING, ch)))
    ELSE BitAnd(st1, BitNot8(Shl(Z80_DRV_STAT_PLAYING, ch)))

\* the scan with its busy test inverted: it stops at the first playing channel
RECURSIVE ScanFree_firstBusy(_, _, _)
ScanFree_firstBusy(st, ch, n) ==
    IF ch < n /\ BitAnd(st, Shl(Z80_DRV_STAT_PLAYING, ch)) = 0
    THEN ScanFree_firstBusy(st, ch + 1, n)
    ELSE ch

\* while ((ch < n) && (status & (Z80_DRV_STAT_PLAYING << ch))) ch++;
RECURSIVE ScanFree(_, _, _)
ScanFree(st, ch, n) ==
    IF ch < n /\ BitAnd(st, Shl(Z80_DRV_STAT_PLAYING, ch)) # 0
    THEN ScanFree(st, ch + 1, n)
    ELSE ch

\* the scan result used as it is, without  if (ch == n) ch = 0;
ResolveChannel_noFallback(st, channel, n) ==
    IF channel = SOUND_PCM_CH_AUTO THEN ScanFree(st, 0, n) ELSE channel

\* the channel startPlay uses: the scan result, slot 0 when the scan runs off the end
ResolveChannel(st, channel, n) ==
    IF channel = SOUND_PCM_CH_AUTO
    THEN LET ch == ScanFree(st, 0, n) IN IF ch = n THEN 0 ELSE ch
    ELSE channel

(* ------------------------------------------------------------------ *)
(* Z80_DRIVER_PCM: single channel                                       *)
(* ------------------------------------------------------------------ *)
\* the status polled, bus held, until the sample has ended
SND_isPlaying_PCM_poll ==
    /\ op.fn = "SND_isPlaying_PCM"
    /\ \/ LoadStep(Z80_DRIVER_PCM, "request")
       \/ RequestStep("status")
       \/ /\ pc = "status"
          /\ local' = [local EXCEPT !.ret = BitAnd(status[0], Z80_DRV_STAT_PLAYING)]
          /\ log' = Append(log, Ev("read", "status", 0))
          /\ Goto(IF BitAnd(status[0], Z80_DRV_STAT_PLAYING) # 0
                  THEN "status" ELSE "release")
          /\ UNCHANGED <<driver, busHeld, z80reset, win, op, pre, nops, run>>
       \/ ReleaseStep("idle")

SND_isPlaying_PCM ==
    /\ op.fn = "SND_isPlaying_PCM"
    /\ \/ LoadStep(Z80_DRIVER_PCM, "request")
       \/ RequestStep("status")
       \/ /\ pc = "status"
          /\ local' = [local EXCEPT !.ret = BitAnd(status[0], Z80_DRV_STAT_PLAYING)]
          /\ log' = Append(log, Ev("read", "status", 0))
          /\ Goto("release")
          /\ UNCHANGED <<driver, busHeld, z80reset, win, op, pre, nops, run>>
       \/ ReleaseStep("idle")

SND_startPlay_PCM ==
    /\ op.fn = "SND_startPlay_PCM"
    /\ \/ LoadStep(Z80_DRIVER_PCM, "request")
       \/ RequestStep("params")
       \/ /\ pc = "params"
          /\ params' = [WriteParams(params, 0, op.sample, op.len, 8)
                            EXCEPT ![4] = U8(op.rate), ![6] = U8(op.pan)]
          /\ log' = log \o ParamEvents(0)
                        \o <<Ev("write", "params", 4), Ev("write", "params", 6)>>
          /\ Goto("command")
          /\ UNCHANGED <<driver, busHeld, z80reset, command, status, mvs, tfm,
                         op, local, pre, nops, run>>
       \/ /\ pc = "command"
          /\ command' = PlayCommand(command, 0)
          /\ log' = log \o <<Ev("read", "command", 0), Ev("write", "command", 0)>>
          /\ Goto("loop")
          /\ UNCHANGED <<driver, busHeld, z80reset, status, params, mvs, tfm,
                         op, local, pre, nops, run>>
       \/ /\ pc = "loop"
          /\ status' = [status EXCEPT ![1] = LoopFlag(@, op.loop, 0)]
          /\ log' = log \o <<Ev("read", "status", 1), Ev("write", "status", 1)>>
          /\ Goto("release")
          /\ UNCHANGED <<driver, busHeld, z80reset, command, params, mvs, tfm,
                         op, local, pre, nops, run>>
       \/ ReleaseStep("idle")

\* only the play status removed, the loop status left
ClearPlayAndLoop_playOnly(mask) ==
    /\ status' = [status EXCEPT ![0] = BitAnd(@, BitNot8(mask))]
    /\ log' = log \o <<Ev("read", "status", 0), Ev("write", "status", 0)>>
    /\ UNCHANGED command

\* the pending play command of the channel removed as well
ClearPlayAndLoop_clearsCommand(mask) ==
    /\ status' = [status EXCEPT ![0] = BitAnd(@, BitNot8(mask)),
                                ![1] = BitAnd(@, BitNot8(mask))]
    /\ command' = BitAnd(command, BitNot8(mask))
    /\ log' = log \o <<Ev("read", "status", 0), Ev("write", "status", 0),
                       Ev("read", "status", 1), Ev("write", "status", 1),
                       Ev("read", "command", 0), Ev("write", "command", 0)>>

\* the bits of the first channel removed, whatever the channel (the mask of
\* the single-channel driver)
ClearPlayAndLoop_channel0(mask) ==
    /\ status' = [status EXCEPT ![0] = BitAnd(@, BitNot8(Z80_DRV_STAT_PLAYING)),
                                ![1] = BitAnd(@, BitNot8(Z80_DRV_STAT_PLAYING))]
    /\ log' = log \o <<Ev("read", "status", 0), Ev("write", "status", 0),
                       Ev("read", "status", 1), Ev("write", "status", 1)>>
    /\ UNCHANGED command

\* pb[0] &= ~mask; pb[1] &= ~mask; with pb = Z80_DRV_STATUS; these are the
\* last window accesses of stopPlay, the command byte is not touched
ClearPlayAndLoop(mask) ==
    /\ status' = [status EXCEPT ![0] = BitAnd(@, BitNot8(mask)),
                                ![1] = BitAnd(@, BitNot8(mask))]
    /\ log' = log \o <<Ev("read", "status", 0), Ev("write", "status", 0),
                       Ev("read", "status", 1), Ev("write", "status", 1)>>
    /\ UNCHANGED command

SND_stopPlay_PCM ==
    /\ op.fn = "SND_stopPlay_PCM"
    /\ \/ LoadStep(Z80_DRIVER_PCM, "request")
       \/ RequestStep("params")
       \/ /\ pc = "params"
          /\ params' = WriteParams(params, 16, smp_null, W32(0, smp_null_size), 8)
          /\ log' = log \o ParamEvents(16)
          /\ Goto("status")
          /\ UNCHANGED <<driver, busHeld, z80reset, command, status, mvs, tfm,
                         op, local, pre, nops, run>>
       \/ /\ pc = "status"
          /\ ClearPlayAndLoop(Z80_DRV_STAT_PLAYING)
          /\ Goto("release")
          /\ UNCHANGED <<driver, busHeld, z80reset, params, mvs, tfm,
                         op, local, pre, nops, run>>
       \/ ReleaseStep("idle")

(* ------------------------------------------------------------------ *)
(* Z80_DRIVER_2ADPCM, Z80_DRIVER_4PCM, Z80_DRIVER_4PCM_ENV              *)
(* The three families have the same statements; they differ in the      *)
(* driver, the number of channels n and the boundary shift s.           *)
(* ------------------------------------------------------------------ *)
\* the whole status byte returned, whatever the mask
MaskedStatus_unmasked(st, channel_mask) == st

\* *pb & (channel_mask << Z80_DRV_STAT_PLAYING_SFT), as u8
MaskedStatus(st, channel_mask) ==
    U8(BitAnd(st, Shl(channel_mask, Z80_DRV_STAT_PLAYING_SFT)))

\* op.channel carries channel_mask
IsPlayingMulti(fn, drv) ==
    /\ op.fn = fn
    /\ \/ LoadStep(drv, "request")
       \/ RequestStep("status")
       \/ /\ pc = "status"
          /\ local' = [local EXCEPT !.ret = MaskedStatus(status[0], op.channel)]
          /\ log' = Append(log, Ev("read", "status", 0))
          /\ Goto("release")
          /\ UNCHANGED <<driver, busHeld, z80reset, win, op, pre, nops, run>>
       \/ ReleaseStep("idle")

StartPlayMulti(fn, drv, n, s) ==
    /\ op.fn = fn
    /\ \/ LoadStep(drv, "request")
       \/ RequestStep("status")
       \/ /\ pc = "status"
          /\ local' = [local EXCEPT !.status = status[0],
                                    !.ch = ResolveChannel(status[0], op.channel, n)]
          /\ log' = Append(log, Ev("read", "status", 0))
          /\ run' = IF op.channel = SOUND_PCM_CH_AUTO /\ run.k >= 0
                    THEN [run EXCEPT !.k = @ + 1, !.clean = @ /\ command = 0]
                    ELSE run
          /\ Goto("params")
          /\ UNCHANGED <<driver, busHeld, z80reset, win, op, pre, nops>>
       \/ /\ pc = "params"
          /\ params' = WriteParams(params, local.ch * 4, op.sample, op.len, s)
          /\ log' = log \o ParamEvents(local.ch * 4)
          /\ Goto("command")
          /\ UNCHANGED <<driver, busHeld, z80reset, command, status, mvs, tfm,
                         op, local, pre, nops, run>>
       \/ /\ pc = "command"
          /\ command' = PlayCommand(command, local.ch)
          /\ log' = log \o <<Ev("read", "command", 0), Ev("write", "command", 0)>>
          /\ Goto("loop")
          /\ UNCHANGED <<driver, busHeld, z80reset, status, params, mvs, tfm,
                         op, local, pre, nops, run>>
       \/ /\ pc = "loop"
          /\ status' = [status EXCEPT ![1] = LoopFlag(@, op.loop, local.ch)]
          /\ log' = log \o <<Ev("read", "status", 1), Ev("write", "status", 1)>>
          /\ Goto("release")
          /\ UNCHANGED <<driver, busHeld, z80reset, command, params, mvs, tfm,
                         op, local, pre, nops, run>>
       \/ ReleaseStep("idle")

StopPlayMulti(fn, drv, nullAddr, nullSize, s) ==
    /\ op.fn = fn
    /\ \/ LoadStep(drv, "request")
       \/ RequestStep("params")
       \/ /\ pc = "params"
          /\ params' = WriteParams(params, 16 + op.channel * 4, nullAddr,
                                   W32(0, nullSize), s)
          /\ log' = log \o ParamEvents(16 + op.channel * 4)
          /\ Goto("status")
          /\ UNCHANGED <<driver, busHeld, z80reset, command, status, mvs, tfm,
                         op, local, pre, nops, run>>
       \/ /\ pc = "status"
          /\ ClearPlayAndLoop(Shl(Z80_DRV_STAT_PLAYING, op.channel))
          /\ Goto("release")
          /\ UNCHANGED <<driver, busHeld, z80reset, params, mvs, tfm,
                         op, local, pre, nops, run>>
       \/ ReleaseStep("idle")

\* the query of the 2ADPCM driver loading the single-channel driver
SND_isPlaying_2ADPCM_pcmDriver ==
    IsPlayingMulti("SND_isPlaying_2ADPCM", Z80_DRIVER_PCM)

SND_isPlaying_2ADPCM == IsPlayingMulti("SND_isPlaying_2ADPCM", Z80_DRIVER_2ADPCM)
SND_startPlay_2ADPCM == StartPlayMulti("SND_startPlay_2ADPCM", Z80_DRIVER_2ADPCM, 2, 7)
SND_stopPlay_2ADPCM ==
    StopPlayMulti("SND_stopPlay_2ADPCM", Z80_DRIVER_2ADPCM,
                  smp_null_pcm, smp_null_pcm_size, 7)

\* the query of the 4PCM driver loading the envelope driver
SND_isPlaying_4PCM_envDriver ==
    IsPlayingMulti("SND_isPlaying_4PCM", Z80_DRIVER_4PCM_ENV)

SND_isPlaying_4PCM == IsPlayingMulti("SND_isPlaying_4PCM", Z80_DRIVER_4PCM)
SND_startPlay_4PCM == StartPlayMulti("SND_startPlay_4PCM", Z80_DRIVER_4PCM, 4, 8)
SND_stopPlay_4PCM ==
    StopPlayMulti("SND_stopPlay_4PCM", Z80_DRIVER_4PCM, smp_null, smp_null_size, 8)

SND_isPlaying_4PCM_ENV == IsPlayingMulti("SND_isPlaying_4PCM_ENV", Z80_DRIVER_4PCM_ENV)
SND_startPlay_4PCM_ENV ==
    StartPlayMulti("SND_startPlay_4PCM_ENV", Z80_DRIVER_4PCM_ENV, 4, 8)
SND_stopPlay_4PCM_ENV ==
    StopPlayMulti("SND_stopPlay_4PCM_ENV", Z80_DRIVER_4PCM_ENV,
                  smp_null, smp_null_size, 8)

\* a volume above 15 stored as the loudest level
VolumeByte_clamped(volume) == IF volume > 15 THEN 15 ELSE volume

\* volume & 0x0F
VolumeByte(volume) == BitAnd(volume, 15)

SND_setVolume_4PCM_ENV ==
    /\ op.fn = "SND_setVolume_4PCM_ENV"
    /\ \/ LoadStep(Z80_DRIVER_4PCM_ENV, "request")
       \/ RequestStep("volume")
       \/ /\ pc = "volume"
          /\ params' = [params EXCEPT ![32 + op.channel] = VolumeByte(op.volume)]
          /\ log' = Append(log, Ev("write", "params", 32 + op.channel))
          /\ Goto("release")
          /\ UNCHANGED <<driver, busHeld, z80reset, command, status, mvs, tfm,
                         op, local, pre, nops, run>>
       \/ ReleaseStep("idle")

SND_getVolume_4PCM_ENV ==
    /\ op.fn = "SND_getVolume_4PCM_ENV"
    /\ \/ LoadStep(Z80_DRIVER_4PCM_ENV, "request")
       \/ RequestStep("volume")
       \/ /\ pc = "volume"
          /\ local' = [local EXCEPT !.ret = BitAnd(params[32 + op.channel], 15)]
          /\ log' = Append(log, Ev("read", "params", 32 + op.channel))
          /\ Goto("release")
          /\ UNCHANGED <<driver, busHeld, z80reset, win, op, pre, nops, run>>
       \/ ReleaseStep("idle")

(* ------------------------------------------------------------------ *)
(* Z80_DRIVER_MVS                                                       *)
(* ------------------------------------------------------------------ *)
\* mvs[i] is the byte at 0xA0151A + i; 0xA0151D is mvs[3]
SND_isPlaying_MVS ==
    /\ op.fn = "SND_isPlaying_MVS"
    /\ \/ LoadStep(Z80_DRIVER_MVS, "request")
       \/ RequestStep("status")
       \/ /\ pc = "status"
          /\ local' = [local EXCEPT !.ret = BitAnd(mvs[3], 3)]
          /\ log' = Append(log, Ev("read", "mvs", 3))
          /\ Goto("release")
          /\ UNCHANGED <<driver, busHeld, z80reset, win, op, pre, nops, run>>
       \/ ReleaseStep("idle")

\* the two play modes exchanged
MvsCommand_swapped(loop) == IF loop # 0 THEN SOUND_MVS_ONCE ELSE SOUND_MVS_LOOP

\* if (loop) pb[0x03] = SOUND_MVS_LOOP; else pb[0x03] = SOUND_MVS_ONCE;
MvsCommand(loop) == IF loop # 0 THEN SOUND_MVS_LOOP ELSE SOUND_MVS_ONCE

SND_startPlay_MVS ==
    /\ op.fn = "SND_startPlay_MVS"
    /\ \/ LoadStep(Z80_DRIVER_MVS, "request")
       \/ RequestStep("song")
       \/ /\ pc = "song"
          /\ mvs' = [mvs EXCEPT ![0] = ShrU8(op.sample, 0),
                                ![1] = ShrU8(op.sample, 8),
                                ![2] = ShrU8(op.sample, 16)]
          /\ log' = log \o <<Ev("write", "mvs", 0), Ev("write", "mvs", 1),
                             Ev("write", "mvs", 2)>>
          /\ Goto("command")
          /\ UNCHANGED <<driver, busHeld, z80reset, command, status, params, tfm,
                         op, local, pre, nops, run>>
       \/ /\ pc = "command"
          /\ mvs' = [mvs EXCEPT ![3] = MvsCommand(op.loop)]
          /\ log' = Append(log, Ev("write", "mvs", 3))
          /\ Goto("release")
          /\ UNCHANGED <<driver, busHeld, z80reset, command, status, params, tfm,
                         op, local, pre, nops, run>>
       \/ ReleaseStep("idle")

SND_stopPlay_MVS ==
    /\ op.fn = "SND_stopPlay_MVS"
    /\ \/ LoadStep(Z80_DRIVER_MVS, "request")
       \/ RequestStep("command")
       \/ /\ pc = "command"
          /\ mvs' = [mvs EXCEPT ![3] = SOUND_MVS_SILENCE]
          /\ log' = Append(log, Ev("write", "mvs", 3))
          /\ Goto("release")
          /\ UNCHANGED <<driver, busHeld, z80reset, command, status, params, tfm,
                         op, local, pre, nops, run>>
       \/ ReleaseStep("idle")

(* ------------------------------------------------------------------ *)
(* Z80_DRIVER_TFM                                                       *)
(* ------------------------------------------------------------------ *)
\* the driver loaded before the bus is released
TFMAfter_loadHeld(p) ==
    CASE p = "request"    -> "song"
      [] p = "song"       -> "load"
      [] p = "load"       -> "release"
      [] p = "release"    -> "startReset"
      [] p = "startReset" -> "endReset"
      [] p = "endReset"   -> "idle"

\* the call ends once the driver is loaded, the Z80 is not reset
TFMAfter_noReset(p) ==
    CASE p = "request"    -> "song"
      [] p = "song"       -> "release"
      [] p = "release"    -> "load"
      [] p = "load"       -> "idle"
      [] p = "startReset" -> "endReset"
      [] p = "endReset"   -> "idle"

\* the statement that follows statement p in SND_startPlay_TFM
TFMAfter(p) ==
    CASE p = "request"    -> "song"
      [] p = "song"       -> "release"
      [] p = "release"    -> "load"
      [] p = "load"       -> "startReset"
      [] p = "startReset" -> "endReset"
      [] p = "endReset"   -> "idle"

\* tfm[i] is the byte at 0xA01FFC + i; the fourth store goes to pb[0x00] again
SND_startPlay_TFM ==
    /\ op.fn = "SND_startPlay_TFM"
    /\ \/ RequestStep(TFMAfter("request"))
       \/ /\ pc = "song"
          /\ tfm' = [[tfm EXCEPT ![0] = ShrU8(op.sample, 0),
                                 ![1] = ShrU8(op.sample, 8),
                                 ![2] = ShrU8(op.sample, 16)]
                          EXCEPT ![0] = ShrU8(op.sample, 24)]
          /\ log' = log \o <<Ev("write", "tfm", 0), Ev("write", "tfm", 1),
                             Ev("write", "tfm", 2), Ev("write", "tfm", 0)>>
          /\ Goto(TFMAfter("song"))
          /\ UNCHANGED <<driver, busHeld, z80reset, command, status, params, mvs,
                         op, local, pre, nops, run>>
       \/ ReleaseStep(TFMAfter("release"))
       \/ LoadStep(Z80_DRIVER_TFM, TFMAfter("load"))
       \/ /\ pc = "startReset"
          /\ Z80_startReset
          /\ Goto(TFMAfter("startReset"))
          /\ UNCHANGED <<driver, busHeld, win, op, local, pre, nops, run>>
       \/ /\ pc = "endReset"
          /\ Z80_endReset
          /\ Goto(TFMAfter("endReset"))
          /\ UNCHANGED <<driver, busHeld, win, op, local, pre, nops, run>>

(* ------------------------------------------------------------------ *)
(* The co-processor (PCM-family firmware), as the protocol describes it *)
(* It runs only while the 68000 does not hold the bus.                  *)
(* ------------------------------------------------------------------ *)
Channels == 0..3

\* the firmware takes the play command of channel c and starts playing it
Z80_consumeCommand ==
    /\ ~busHeld /\ ~z80reset
    /\ \E c \in Channels :
          /\ Bit(command, c) = 1
          /\ command' = command - Pow2(c)
          /\ status' = [status EXCEPT ![0] = BitOr(@, Pow2(c))]
    /\ returned' = FALSE
    /\ UNCHANGED <<driver, busHeld, z80reset, params, mvs, tfm, op, pc, local,
                   log, pre, nops, run, asked, wav>>

\* the sample of channel c reaches its end: the firmware clears the play bit only
Z80_endOfSample ==
    /\ ~busHeld /\ ~z80reset
    /\ \E c \in Channels :
          /\ Bit(status[0], c) = 1
          /\ status' = [status EXCEPT ![0] = @ - Pow2(c)]
    /\ returned' = FALSE
    /\ run' = [run EXCEPT !.clean = FALSE]
    /\ UNCHANGED <<driver, busHeld, z80reset, command, params, mvs, tfm, op, pc,
                   local, log, pre, nops, asked, wav>>

(* ------------------------------------------------------------------ *)
(* SoundUtil (the WAV converter of the tool chain)                      *)
(* The Java sound library is outside the repository: what it answers    *)
(* (can it convert, what each read returns, does a call throw) is drawn *)
(* when the conversion starts and replayed by the statements.           *)
(* ------------------------------------------------------------------ *)
MaxReads == 2

EndOfData == -1
IOError   == -2

NoWav == [pc |-> "idle", calls |-> 0, rate |-> 0, mono |-> FALSE, bits |-> 8,
          inRate |-> 0, inChannels |-> 0, dst |-> <<>>,
          canOpen |-> TRUE, canConvert |-> TRUE, reads |-> <<>>,
          ending |-> EndOfData, closeFails |-> "none",
          wavInput |-> "none", resampledInput |-> "none",
          off |-> 0, nreads |-> 0, wavCloses |-> 0, resCloses |-> 0,
          pending |-> "none", outcome |-> "none", length |-> 0]

\* resample(): the target format, and null when the library cannot convert to it
resample(w) ==
    LET channel == IF w.mono THEN 1 ELSE w.inChannels
        adjRate == IF w.rate <= 0 THEN w.inRate ELSE w.rate
        dstFormat == <<adjRate, w.bits, channel, ((w.bits + 7) \div 8) * channel>>
    IN  [w EXCEPT !.dst = dstFormat,
                  !.resampledInput = IF ~w.canConvert THEN "null" ELSE "open"]

\* the input stream left open when the conversion is refused
CannotConvert_leak(w) ==
    [w EXCEPT !.pc = "done", !.outcome = "UnsupportedAudioFileException"]

\* if (resampledInput == null) { wavInput.close(); throw new UnsupportedAudioFileException }
CannotConvert(w) ==
    IF w.closeFails = "wavInput"
    THEN [w EXCEPT !.wavCloses = @ + 1, !.pc = "done", !.outcome = "IOException"]
    ELSE [w EXCEPT !.wavCloses = @ + 1, !.wavInput = "closed", !.pc = "done",
                   !.outcome = "UnsupportedAudioFileException"]

\* what the reads of a stream deliver before its ending: full 256-byte chunks,
\* the last one possibly short; at most n reads
ReadScripts(n) ==
    {[i \in 1..k |-> IF i = k THEN last ELSE 256] : k \in 0..n, last \in {100, 256}}

getRawDataFromWAV ==
    /\ \/ /\ wav.pc = "open"
          /\ wav' = IF wav.canOpen
                    THEN [wav EXCEPT !.wavInput = "open", !.pc = "resample"]
                    ELSE [wav EXCEPT !.pc = "done",
                                     !.outcome = "UnsupportedAudioFileException"]
       \/ /\ wav.pc = "resample"
          /\ wav' = [resample(wav) EXCEPT !.pc = "check"]
       \/ /\ wav.pc = "check"
          /\ wav' = IF wav.resampledInput = "null"
                    THEN CannotConvert(wav)
                    ELSE [wav EXCEPT !.pc = "read"]
       \/ /\ wav.pc = "read"
          /\ LET read == IF wav.nreads < Len(wav.reads)
                         THEN wav.reads[wav.nreads + 1]
                         ELSE wav.ending
             IN  wav' = IF read = IOError
                        THEN [wav EXCEPT !.nreads = @ + 1, !.pending = "IOException",
                                         !.pc = "closeResampled"]
                        ELSE IF read > 0
                        THEN [wav EXCEPT !.nreads = @ + 1, !.off = @ + read]
                        ELSE [wav EXCEPT !.nreads = @ + 1, !.pc = "closeResampled"]
       \/ /\ wav.pc = "closeResampled"
          /\ wav' = IF wav.closeFails = "resampledInput"
                    THEN [wav EXCEPT !.resCloses = @ + 1, !.pc = "done",
                                     !.outcome = "IOException"]
                    ELSE [wav EXCEPT !.resCloses = @ + 1, !.resampledInput = "closed",
                                     !.pc = "closeWav"]
       \/ /\ wav.pc = "closeWav"
          /\ wav' = IF wav.closeFails = "wavInput"
                    THEN [wav EXCEPT !.wavCloses = @ + 1, !.pc = "done",
                                     !.outcome = "IOException"]
                    ELSE IF wav.pending # "none"
                    THEN [wav EXCEPT !.wavCloses = @ + 1, !.wavInput = "closed",
                                     !.pc = "done", !.outcome = wav.pending]
                    ELSE [wav EXCEPT !.wavCloses = @ + 1, !.wavInput = "closed",
                                     !.pc = "copy"]
       \/ /\ wav.pc = "copy"
          /\ wav' = [wav EXCEPT !.length = wav.off, !.pc = "done", !.outcome = "returned"]
    /\ UNCHANGED <<driver, busHeld, z80reset, win, op, pc, local, log, pre,
                   returned, nops, run, asked>>

(* ------------------------------------------------------------------ *)
(* Callers: the facade calls a run draws from                           *)
(* ------------------------------------------------------------------ *)
\* 0x00123480, 0x00002180: multiples of 128, address bits up to bit 20
SampleA == W32(18, 13440)
LenA    == W32(0, 8576)
NoAddr  == W32(0, 0)
Loops   == {0, 2}

\* the functions with an automatic channel selector, and their channel count
AutoFns == {"SND_startPlay_2ADPCM", "SND_startPlay_4PCM", "SND_startPlay_4PCM_ENV"}
NumChannels(fn) == IF fn = "SND_startPlay_2ADPCM" THEN 2 ELSE 4

\* every function starting with Z80_requestBus
FirstPc_request(fn) == "request"

\* the first statement of a function
FirstPc(fn) == IF fn = "SND_startPlay_TFM" THEN "request" ELSE "load"

ReqPCM(fn, sample, len, rate, pan, loop) ==
    [Req(fn, sample, len, 0, loop, 0) EXCEPT !.rate = rate, !.pan = pan]

Requests ==
    {Req("SND_isPlaying_PCM", NoAddr, NoAddr, 0, 0, 0), Req("SND_stopPlay_PCM", NoAddr, NoAddr, 0, 0, 0)}
    \cup {ReqPCM("SND_startPlay_PCM", SampleA, LenA, 3, 128, l) : l \in Loops}
    \cup {Req("SND_isPlaying_2ADPCM", NoAddr, NoAddr, m, 0, 0) : m \in {3}}
    \cup {Req("SND_startPlay_2ADPCM", SampleA, LenA, c, l, 0) :
              c \in {1, SOUND_PCM_CH_AUTO}, l \in Loops}
    \cup {Req("SND_stopPlay_2ADPCM", NoAddr, NoAddr, c, 0, 0) : c \in {1}}
    \cup {Req("SND_isPlaying_4PCM", NoAddr, NoAddr, m, 0, 0) : m \in {2, 5}}
    \cup {Req("SND_startPlay_4PCM", SampleA, LenA, c, l, 0) :
              c \in {0, 2, SOUND_PCM_CH_AUTO}, l \in Loops}
    \cup {Req("SND_stopPlay_4PCM", NoAddr, NoAddr, c, 0, 0) : c \in {1, 2}}
    \cup {Req("SND_isPlaying_4PCM_ENV", NoAddr, NoAddr, m, 0, 0) : m \in {5}}
    \cup {Req("SND_startPlay_4PCM_ENV", SampleA, LenA, c, l, 0) :
              c \in {3, SOUND_PCM_CH_AUTO}, l \in Loops}
    \cup {Req("SND_stopPlay_4PCM_ENV", NoAddr, NoAddr, c, 0, 0) : c \in {2}}
    \cup {Req("SND_setVolume_4PCM_ENV", NoAddr, NoAddr, c, 0, v) : c \in {3}, v \in {5, 31}}
    \cup {Req("SND_getVolume_4PCM_ENV", NoAddr, NoAddr, c, 0, 0) : c \in {3}}
    \cup {Req("SND_isPlaying_MVS", NoAddr, NoAddr, 0, 0, 0), Req("SND_stopPlay_MVS", NoAddr, NoAddr, 0, 0, 0)}
    \cup {Req("SND_startPlay_MVS", SampleA, NoAddr, 0, l, 0) : l \in Loops}
    \cup {Req("SND_startPlay_TFM", SampleA, NoAddr, 0, 0, 0)}

\* the caller enters a facade function
CallFrom(R, max) ==
    /\ pc = "idle"
    /\ nops < max
    /\ \E r \in R :
          /\ op' = r
          /\ pc' = FirstPc(r.fn)
          /\ run' = IF /\ r.fn \in AutoFns /\ r.channel = SOUND_PCM_CH_AUTO
                       /\ run.fn \in {"", r.fn} /\ run.k >= 0
                    THEN [run EXCEPT !.fn = r.fn]
                    ELSE [fn |-> r.fn, k |-> -1, clean |-> FALSE]
          /\ asked' = [asked EXCEPT !.prev =
                          IF op.fn \in AutoFns /\ op.channel = SOUND_PCM_CH_AUTO
                          THEN [fn |-> op.fn, ch |-> local.ch] ELSE NoPrev]
    /\ local' = NoLocal
    /\ log' = <<>>
    /\ nops' = nops + 1
    /\ returned' = FALSE
    /\ UNCHANGED <<driver, busHeld, z80reset, win, pre, wav>>

Call == CallFrom(Requests, MaxOps)

\* the tool chain converts a WAV file: arguments, and the answers of the library
WavCall ==
    /\ wav.pc \in {"idle", "done"}
    /\ wav.calls < MaxWavOps
    /\ \E fmt \in {<<0, FALSE>>, <<8000, TRUE>>}, canOpen \in BOOLEAN,
          canConvert \in BOOLEAN, reads \in ReadScripts(MaxReads),
          ending \in {EndOfData, 0, IOError},
          closeFails \in {"none", "resampledInput", "wavInput"} :
          \* answers the run never asks for are not varied
          /\ ~canOpen => canConvert
          /\ ~(canOpen /\ canConvert) =>
                reads = <<>> /\ ending = EndOfData /\ closeFails # "resampledInput"
          /\ ~canOpen => closeFails = "none"
          /\ wav' = [NoWav EXCEPT !.pc = "open", !.calls = wav.calls + 1,
                               !.rate = fmt[1], !.mono = fmt[2],
                               !.inRate = 44100, !.inChannels = 2,
                               !.canOpen = canOpen, !.canConvert = canConvert,
                               !.reads = reads, !.ending = ending,
                               !.closeFails = closeFails]
    /\ UNCHANGED <<driver, busHeld, z80reset, win, op, pc, local, log, pre,
                   returned, nops, run, asked>>

(* ------------------------------------------------------------------ *)
(* Specification                                                        *)
(* ------------------------------------------------------------------ *)
Init ==
    /\ driver \in Drivers
    /\ busHeld = FALSE
    /\ z80reset = FALSE
    /\ command = 0
    /\ status = [i \in 0..1 |-> 0]
    /\ params = [i \in 0..(ParamsSize - 1) |-> 0]
    /\ mvs = [i \in 0..3 |-> 0]
    /\ tfm = [i \in 0..3 |-> 0]
    /\ op = Req("none", NoAddr, NoAddr, 0, 0, 0)
    /\ pc = "idle"
    /\ local = NoLocal
    /\ log = <<>>
    /\ pre = Snapshot
    /\ returned = FALSE
    /\ nops = 0
    /\ run = [fn |-> "", k |-> 0, clean |-> TRUE]
    /\ asked = NoAsked
    /\ wav = NoWav

Next ==
    \/ Call
    \/ SND_isPlaying_PCM \/ SND_startPlay_PCM \/ SND_stopPlay_PCM
    \/ SND_isPlaying_2ADPCM \/ SND_startPlay_2ADPCM \/ SND_stopPlay_2ADPCM
    \/ SND_isPlaying_4PCM \/ SND_startPlay_4PCM \/ SND_stopPlay_4PCM
    \/ SND_isPlaying_4PCM_ENV \/ SND_startPlay_4PCM_ENV \/ SND_stopPlay_4PCM_ENV
    \/ SND_setVolume_4PCM_ENV \/ SND_getVolume_4PCM_ENV
    \/ SND_isPlaying_MVS \/ SND_startPlay_MVS \/ SND_stopPlay_MVS
    \/ SND_startPlay_TFM
    \/ Z80_consumeCommand
    \/ Z80_endOfSample

Spec == Init /\ [][Next]_vars

(* ------------------------------------------------------------------ *)
(* SpecCodec: the parameter encoding of startPlay over a range of       *)
(* addresses and lengths                                                *)
(* ------------------------------------------------------------------ *)
\* 0x00123400, 0x007FFF80, 0x00FFFF00, 0xFF812345
CodecAddrs == {W32(18, 13312), W32(127, 65408), W32(255, 65280), W32(65409, 9029)}
\* 0x00002180, 0x00010000, 0x01FFFF80
CodecLens  == {W32(0, 8576), W32(1, 0), W32(511, 65408)}

CodecRequests ==
    {ReqPCM("SND_startPlay_PCM", a, l, 3, 128, 0) : a \in CodecAddrs, l \in CodecLens}
    \cup {Req(fn, a, l, c, 2, 0) :
              fn \in AutoFns, a \in CodecAddrs, l \in CodecLens,
              c \in {1, SOUND_PCM_CH_AUTO}}

CallCodec == CallFrom(CodecRequests, MaxCodecOps)

NextCodec ==
    \/ CallCodec
    \/ SND_startPlay_PCM
    \/ SND_startPlay_2ADPCM
    \/ SND_startPlay_4PCM
    \/ SND_startPlay_4PCM_ENV

SpecCodec == Init /\ [][NextCodec]_vars

(* ------------------------------------------------------------------ *)
(* SpecAuto: runs of automatic-channel startPlay calls with the         *)
(* co-processor taking the commands and finishing samples               *)
(* ------------------------------------------------------------------ *)
AutoRequests == {Req(fn, SampleA, LenA, SOUND_PCM_CH_AUTO, 2, 0) : fn \in AutoFns}

CallAuto == CallFrom(AutoRequests, MaxAutoOps)

NextAuto ==
    \/ CallAuto
    \/ SND_startPlay_2ADPCM
    \/ SND_startPlay_4PCM
    \/ SND_startPlay_4PCM_ENV
    \/ Z80_consumeCommand
    \/ Z80_endOfSample

SpecAuto == Init /\ [][NextAuto]_vars

\* the envelope volume registers: every channel, volumes on both sides of 15
VolumeRequests ==
    {Req("SND_setVolume_4PCM_ENV", NoAddr, NoAddr, c, 0, v) :
        c \in Channels, v \in {5, 15, 16, 255}}
    \cup {Req("SND_getVolume_4PCM_ENV", NoAddr, NoAddr, c, 0, 0) : c \in Channels}

CallVolume == CallFrom(VolumeRequests, MaxVolumeOps)

NextVolume ==
    \/ CallVolume
    \/ SND_setVolume_4PCM_ENV
    \/ SND_getVolume_4PCM_ENV

SpecVolume == Init /\ [][NextVolume]_vars

\* the 4PCM driver queried between automatic-channel starts
QueryRequests ==
    {Req("SND_startPlay_4PCM", SampleA, LenA, SOUND_PCM_CH_AUTO, 0, 0)}
    \cup {Req("SND_isPlaying_4PCM", NoAddr, NoAddr, mask, 0, 0) : mask \in {2, 5}}

CallQuery == CallFrom(QueryRequests, MaxQueryOps)

NextQuery ==
    \/ CallQuery
    \/ SND_startPlay_4PCM
    \/ SND_isPlaying_4PCM
    \/ Z80_consumeCommand
    \/ Z80_endOfSample

SpecQuery == Init /\ [][NextQuery]_vars

\* every function once, under the scheduling of the 68000: a function that
\* was called keeps executing its statements (the collaborators return), while
\* nothing is assumed about the pace of the co-processor
LiveRequests ==
    {r \in Requests :
        /\ r.fn \in AutoFns => r.channel = SOUND_PCM_CH_AUTO
        /\ r.loop \in {0, 2} /\ (r.fn \in AutoFns \cup {"SND_startPlay_PCM",
                                   "SND_startPlay_MVS"} => r.loop = 2)
        /\ r.volume \in {0, 31}}

CallLive == CallFrom(LiveRequests, MaxLiveOps)

FacadeStep ==
    \/ SND_isPlaying_PCM \/ SND_startPlay_PCM \/ SND_stopPlay_PCM
    \/ SND_isPlaying_2ADPCM \/ SND_startPlay_2ADPCM \/ SND_stopPlay_2ADPCM
    \/ SND_isPlaying_4PCM \/ SND_startPlay_4PCM \/ SND_stopPlay_4PCM
    \/ SND_isPlaying_4PCM_ENV \/ SND_startPlay_4PCM_ENV \/ SND_stopPlay_4PCM_ENV
    \/ SND_setVolume_4PCM_ENV \/ SND_getVolume_4PCM_ENV
    \/ SND_isPlaying_MVS \/ SND_startPlay_MVS \/ SND_stopPlay_MVS
    \/ SND_startPlay_TFM

NextLive ==
    \/ CallLive
    \/ FacadeStep
    \/ Z80_consumeCommand
    \/ Z80_endOfSample

SpecLive == Init /\ [][NextLive]_vars /\ WF_vars(FacadeStep)

\* the WAV converter alone
NextWav ==
    \/ WavCall
    \/ getRawDataFromWAV

SpecWav == Init /\ [][NextWav]_vars

(* ------------------------------------------------------------------ *)
(* Properties                                                           *)
(* ------------------------------------------------------------------ *)
\* the driver each facade function belongs to
DriverOf(fn) ==
    CASE fn \in {"SND_isPlaying_PCM", "SND_startPlay_PCM", "SND_stopPlay_PCM"}
            -> Z80_DRIVER_PCM
      [] fn \in {"SND_isPlaying_2ADPCM", "SND_startPlay_2ADPCM", "SND_stopPlay_2ADPCM"}
            -> Z80_DRIVER_2ADPCM
      [] fn \in {"SND_isPlaying_4PCM", "SND_startPlay_4PCM", "SND_stopPlay_4PCM"}
            -> Z80_DRIVER_4PCM
      [] fn \in {"SND_isPlaying_4PCM_ENV", "SND_startPlay_4PCM_ENV",
                 "SND_stopPlay_4PCM_ENV", "SND_setVolume_4PCM_ENV",
                 "SND_getVolume_4PCM_ENV"}
            -> Z80_DRIVER_4PCM_ENV
      [] fn \in {"SND_isPlaying_MVS", "SND_startPlay_MVS", "SND_stopPlay_MVS"}
            -> Z80_DRIVER_MVS
      [] OTHER -> Z80_DRIVER_TFM

Accesses == {"read", "write"}
Idx(e) == {i \in 1..Len(log) : log[i].ev = e}

\* C1: every read or write of the register window happens while the 68000
\* holds the bus; the bus is acquired only when not held and released only
\* when held; the bus is not held between calls, in particular when a call
\* returns.
C1_BusDiscipline ==
    /\ \A i \in 1..Len(log) :
          /\ log[i].ev \in Accesses => log[i].held
          /\ log[i].ev = "acquire" => ~log[i].held
          /\ log[i].ev = "release" => log[i].held
    /\ pc = "idle" => ~busHeld
    /\ returned => ~busHeld

C1_Witness ==
    /\ returned /\ nops = 2
    /\ op.fn = "SND_startPlay_4PCM"
    /\ \E i \in 1..Len(log) :
          log[i].ev = "write" /\ log[i].reg = "command" /\ log[i].held
    /\ Idx("acquire") # {} /\ Idx("release") # {}

\* C2 as stated: in every facade function, the TFM start included, the driver
\* load comes first and precedes the bus acquisition.
C2_LoadBeforeAcquireEverywhere ==
    \A i \in Idx("acquire") : \E j \in 1..(i - 1) : log[j].ev = "load"

\* C2 amended: every facade function of the PCM, 2ADPCM, 4PCM, 4PCM_ENV and
\* MVS drivers runs load (of its own driver), acquire, register accesses,
\* release, in this order; SND_startPlay_TFM runs acquire, register writes,
\* release and only then the driver load.
C2_PhaseOrder ==
    /\ op.fn # "SND_startPlay_TFM" =>
          /\ \A i \in Idx("acquire") :
                /\ log[1].ev = "load" /\ log[1].reg = DriverOf(op.fn)
                /\ i = Cardinality(Idx("load") \cup Idx("reload")) + 1
          /\ \A i \in 1..Len(log) : log[i].ev \in Accesses =>
                /\ \E a \in Idx("acquire") : a < i
                /\ \A r \in Idx("release") : i < r
          /\ returned =>
                /\ Cardinality(Idx("load")) = 1
                /\ Cardinality(Idx("acquire")) = 1
                /\ Idx("release") = {Len(log)}
                /\ \E i \in 1..Len(log) : log[i].ev \in Accesses
    /\ op.fn = "SND_startPlay_TFM" =>
          /\ \A i \in Idx("load") :
                /\ log[i].reg = Z80_DRIVER_TFM
                /\ \E a \in Idx("acquire"), r \in Idx("release") : a < r /\ r < i
                /\ \A w \in 1..Len(log) : log[w].ev \in Accesses => w < i
          /\ returned => Cardinality(Idx("load")) = 1 /\ log[1].ev = "acquire"

C2_Witness ==
    /\ returned
    /\ op.fn = "SND_startPlay_MVS"
    /\ log[1].ev = "load" /\ log[2].ev = "reload" /\ log[3].ev = "acquire"
    /\ log[Len(log)].ev = "release"

\* C3: the driver loader is never called while the 68000 holds the bus.
C3_LoadOutsideBus ==
    \A i \in Idx("load") \cup Idx("reload") : ~log[i].held

C3_Witness ==
    /\ returned
    /\ op.fn = "SND_startPlay_TFM"
    /\ \E r \in Idx("release"), i \in Idx("load") : r < i /\ ~log[i].held

StartFns == AutoFns \cup {"SND_startPlay_PCM"}
StopFns  == {"SND_stopPlay_PCM", "SND_stopPlay_2ADPCM", "SND_stopPlay_4PCM",
             "SND_stopPlay_4PCM_ENV"}
\* boundary shift of the driver a function belongs to
ShiftOf(fn) == IF DriverOf(fn) = Z80_DRIVER_2ADPCM THEN 7 ELSE 8
\* x >> s as a number (s <= 16)
ShiftedValue(x, s) == x.hi * Pow2(16 - s) + (x.lo \div Pow2(s))
LowByte(v)  == v % 256
HighByte(v) == (v \div 256) % 256
WithBit(x, i) == IF Bit(x, i) = 1 THEN x ELSE x + Pow2(i)
Writes(reg, off) ==
    {i \in 1..Len(log) : log[i].ev = "write" /\ log[i].reg = reg /\ log[i].off = off}
\* the call has read the play status byte
Sampled == \E i \in 1..Len(log) :
              log[i].ev = "read" /\ log[i].reg = "status" /\ log[i].off = 0
ExplicitStart == op.fn \in StartFns /\ op.channel # SOUND_PCM_CH_AUTO
AutoStart     == op.fn \in AutoFns /\ op.channel = SOUND_PCM_CH_AUTO

\* C4 as stated: when startPlay with an explicit channel c returns, the play
\* bit of c is set in the status byte and one command pulse was issued for c.
C4_PlayBitSetAtReturn ==
    (returned /\ ExplicitStart) =>
        /\ Bit(status[0], op.channel) = 1
        /\ Cardinality(Writes("command", 0)) = 1

\* C4 amended: when startPlay with an explicit channel c returns, exactly one
\* write of the command byte has happened and it set bit c, keeping the other
\* bits; the play status byte is not written by startPlay, so the play bit of
\* c is the one found when the bus was acquired.
C4_CommandPulseOnly ==
    ExplicitStart =>
        /\ Writes("status", 0) = {}
        /\ (busHeld \/ returned) => status[0] = pre.status[0]
        /\ returned =>
              /\ Cardinality(Writes("command", 0)) = 1
              /\ Bit(command, op.channel) = 1
              /\ command = WithBit(pre.command, op.channel)

C4_Witness ==
    /\ returned /\ ExplicitStart
    /\ op.fn = "SND_startPlay_4PCM_ENV" /\ op.channel = 3
    /\ pre.command = 1
    /\ command = 9
    /\ Bit(status[0], 3) = 0

\* lowest channel of 0..n-1 whose play bit is clear in st, 0 when there is none
LowestIdle(st, n) ==
    IF \A i \in 0..(n - 1) : Bit(st, i) = 1 THEN 0
    ELSE CHOOSE i \in 0..(n - 1) :
            Bit(st, i) = 0 /\ \A j \in 0..(i - 1) : Bit(st, j) = 1

\* C5: startPlay with the automatic selector uses, for its parameter write,
\* command pulse and loop bit, the lowest channel whose play bit is clear in
\* the status byte it sampled, and channel 0 when all play bits are set; it
\* always goes through with the start.
C5_AutoChannel ==
    AutoStart =>
        LET n  == NumChannels(op.fn)
            ch == LowestIdle(pre.status[0], n)
        IN  /\ Sampled => local.status = pre.status[0] /\ local.ch = ch
            /\ \A i \in 1..Len(log) :
                  (log[i].ev = "write" /\ log[i].reg = "params")
                      => log[i].off \in (4 * ch)..(4 * ch + 3)
            /\ returned =>
                  /\ \A k \in 0..3 : Cardinality(Writes("params", 4 * ch + k)) = 1
                  /\ command = WithBit(pre.command, ch)
                  /\ Bit(status[1], ch) = (IF op.loop # 0 THEN 1 ELSE 0)
                  /\ \A c \in Channels \ {ch} : Bit(status[1], c) = Bit(pre.status[1], c)

C5_Witness ==
    /\ returned /\ AutoStart
    /\ op.fn = "SND_startPlay_4PCM"
    /\ local.status = 5
    /\ local.ch = 1
    /\ Bit(command, 1) = 1

\* channel the k-th call (counted from 0) of a run should get
RunChannel(k, n) == IF k < n THEN k ELSE 0

\* C6 as stated: from all channels idle, the successive automatic startPlay
\* calls get channels 0, 1, .. n-1 in order, and 0 once all are busy.
C6_SuccessiveChannels ==
    (AutoStart /\ Sampled /\ run.k >= 1) =>
        local.ch = RunChannel(run.k - 1, NumChannels(op.fn))

\* C6 amended: from all channels idle, successive automatic startPlay calls
\* each made after the co-processor has taken the play command of the one
\* before (so that its play bit is set), and with no sample ending in
\* between, get channels 0, 1, .. n-1 in order, and 0 once all are busy.
C6_SuccessiveChannelsWhenTaken ==
    (AutoStart /\ Sampled /\ run.k >= 1 /\ run.clean) =>
        local.ch = RunChannel(run.k - 1, NumChannels(op.fn))

C6_Witness ==
    /\ returned /\ AutoStart /\ run.clean
    /\ op.fn = "SND_startPlay_4PCM_ENV"
    /\ run.k = 5
    /\ local.status = 15
    /\ local.ch = 0

NullSample(fn) == IF DriverOf(fn) = Z80_DRIVER_2ADPCM THEN smp_null_pcm ELSE smp_null
NullSize(fn) ==
    IF DriverOf(fn) = Z80_DRIVER_2ADPCM THEN W32(0, smp_null_pcm_size)
    ELSE W32(0, smp_null_size)

\* C7: when stopPlay(c) returns, the play bit and the loop bit of c are 0 and
\* the stop parameters of c describe the null sample of the driver family,
\* encoded with the family's boundary rule.
C7_StopClearsAndArmsNull ==
    (returned /\ op.fn \in StopFns) =>
        LET c == op.channel
            b == 16 + 4 * c
            s == ShiftOf(op.fn)
            a == ShiftedValue(NullSample(op.fn), s)
            l == ShiftedValue(NullSize(op.fn), s)
        IN  /\ Bit(status[0], c) = 0
            /\ Bit(status[1], c) = 0
            /\ params[b] = LowByte(a) /\ params[b + 1] = HighByte(a)
            /\ params[b + 2] = LowByte(l) /\ params[b + 3] = HighByte(l)

\* startPlay without loop, the command taken, then stopPlay while it plays
C7_Witness ==
    /\ returned
    /\ op.fn = "SND_stopPlay_2ADPCM" /\ op.channel = 1
    /\ Bit(pre.status[0], 1) = 1 /\ Bit(pre.status[1], 1) = 0
    /\ pre.params[4] = 105
    /\ Bit(status[0], 1) = 0 /\ Bit(status[1], 1) = 0
    /\ params[20] = 7 /\ params[21] = 2 /\ params[22] = 1 /\ params[23] = 0

\* C8: stopPlay neither reads nor writes the command byte: its value when the
\* call returns is the one found when the bus was acquired.
C8_StopKeepsCommand ==
    op.fn \in StopFns =>
        /\ \A i \in 1..Len(log) : log[i].reg # "command"
        /\ (busHeld \/ returned) => command = pre.command

C8_Witness ==
    /\ returned
    /\ op.fn = "SND_stopPlay_4PCM_ENV" /\ op.channel = 2
    /\ pre.command = 4
    /\ command = 4

\* C9: startPlay stores in the four parameter bytes of the resolved channel
\* (A >> s) & 0xFF, (A >> (s+8)) & 0xFF, (L >> s) & 0xFF, (L >> (s+8)) & 0xFF
\* with s = 7 for 2ADPCM and 8 otherwise, for any 32-bit A and L.
C9_ParamBytes ==
    (returned /\ op.fn \in StartFns) =>
        LET s  == ShiftOf(op.fn)
            ch == IF op.fn = "SND_startPlay_PCM" THEN 0
                  ELSE IF op.channel = SOUND_PCM_CH_AUTO
                       THEN LowestIdle(pre.status[0], NumChannels(op.fn))
                       ELSE op.channel
            a  == ShiftedValue(op.sample, s)
            l  == ShiftedValue(op.len, s)
        IN  /\ params[4 * ch]     = LowByte(a)
            /\ params[4 * ch + 1] = HighByte(a)
            /\ params[4 * ch + 2] = LowByte(l)
            /\ params[4 * ch + 3] = HighByte(l)

\* 0xFF812345 and 0x01FFFF80 through the 128-byte rule
C9_Witness ==
    /\ returned
    /\ op.fn = "SND_startPlay_2ADPCM" /\ op.channel = 1
    /\ op.sample = W32(65409, 9029) /\ op.len = W32(511, 65408)
    /\ params[4] = 70 /\ params[5] = 2 /\ params[6] = 255 /\ params[7] = 255

Aligned(x, s) == x.lo % Pow2(s) = 0
\* x >> s fits the two parameter bytes
Representable(x, s) == ShiftedValue(x, s) < 65536

\* C10: for an address and a length that are aligned to the boundary of the
\* driver and whose shifted values fit 16 bits, the parameter bytes written by
\* startPlay decode (byte0 + 256*byte1, byte2 + 256*byte3) to A >> s and L >> s.
C10_RoundTrip ==
    (returned /\ op.fn \in StartFns) =>
        LET s  == ShiftOf(op.fn)
            b  == 4 * local.ch
        IN  (/\ Aligned(op.sample, s) /\ Aligned(op.len, s)
             /\ Representable(op.sample, s) /\ Representable(op.len, s))
            => /\ params[b] + 256 * params[b + 1] = ShiftedValue(op.sample, s)
               /\ params[b + 2] + 256 * params[b + 3] = ShiftedValue(op.len, s)

\* 0x007FFF80 and 0x00002180 through the 128-byte rule
C10_Witness ==
    /\ returned
    /\ op.fn = "SND_startPlay_2ADPCM"
    /\ op.sample = W32(127, 65408) /\ op.len = W32(0, 8576)
    /\ params[4 * local.ch] + 256 * params[4 * local.ch + 1] = 65535
    /\ params[4 * local.ch + 2] + 256 * params[4 * local.ch + 3] = 67

(* ------------------------------------------------------------------ *)
(* C11: on the envelope driver, setVolume(c, v) leaves v & 0x0F in the  *)
(* volume byte of channel c and getVolume(c) returns the byte's low     *)
(* nibble: the volume read back is the last one set modulo 16 (a value  *)
(* of 16 or more is masked, not refused), and it is always in 0..15.    *)
(* ------------------------------------------------------------------ *)
C11_VolumeRoundTrip ==
    /\ (returned /\ op.fn = "SND_setVolume_4PCM_ENV") =>
          params[32 + op.channel] = op.volume % 16
    /\ (returned /\ op.fn = "SND_getVolume_4PCM_ENV") =>
          /\ local.ret \in 0..15
          /\ asked.volume[op.channel] # Never =>
                local.ret = asked.volume[op.channel] % 16

\* a volume of 16 or more was set on a channel and read back masked
C11_Witness ==
    /\ returned /\ op.fn = "SND_getVolume_4PCM_ENV"
    /\ op.channel = 3
    /\ asked.volume[3] = 255
    /\ local.ret = 15

(* ------------------------------------------------------------------ *)
IsPlayingMultiFns == {"SND_isPlaying_2ADPCM", "SND_isPlaying_4PCM",
                      "SND_isPlaying_4PCM_ENV"}
StatusReads ==
    {i \in 1..Len(log) : log[i].ev = "read" /\ log[i].reg = "status" /\ log[i].off = 0}
\* some channel selected by the mask has its play bit set in the byte st
SelectedPlaying(st, mask) == \E c \in 0..7 : Bit(mask, c) = 1 /\ Bit(st, c) = 1
\* the query follows an automatic-channel startPlay of its driver and its
\* mask selects the channel that startPlay was given
QueryOfAutoChannel ==
    /\ returned /\ op.fn \in IsPlayingMultiFns
    /\ asked.prev.fn \in AutoFns
    /\ DriverOf(asked.prev.fn) = DriverOf(op.fn)
    /\ Bit(op.channel, asked.prev.ch) = 1

\* C12 as stated: isPlaying(mask) returns non-zero exactly when a selected
\* channel has its play bit set at the read, and the query of the channel an
\* automatic-channel startPlay was just given returns true.
C12_QueryAfterAutoStart ==
    /\ (returned /\ op.fn \in IsPlayingMultiFns) =>
          ((local.ret # 0) <=> SelectedPlaying(pre.status[0], op.channel))
    /\ QueryOfAutoChannel => local.ret # 0

\* C12, amended: isPlaying(mask) reads the play status once and returns
\* non-zero exactly when a selected channel has its play bit set at that
\* read; the query of the channel an automatic-channel startPlay was given
\* returns true exactly when the play bit of that channel is set by then,
\* which startPlay itself does not do.
C12_QueryReadsPlayBits ==
    /\ (returned /\ op.fn \in IsPlayingMultiFns) =>
          /\ (local.ret # 0) <=> SelectedPlaying(pre.status[0], op.channel)
          /\ Cardinality(StatusReads) = 1
          /\ win = <<pre.command, pre.status, pre.params, pre.mvs, pre.tfm>>
    /\ (QueryOfAutoChannel /\ op.channel = Pow2(asked.prev.ch)) =>
          ((local.ret # 0) <=> Bit(pre.status[0], asked.prev.ch) = 1)

\* channels 0 and 2 busy, the automatic startPlay was given channel 1, the
\* co-processor took its command and the query of channel 1 returned true
C12_Witness ==
    /\ QueryOfAutoChannel
    /\ asked.prev.ch = 1
    /\ op.channel = 2
    /\ Bit(pre.status[0], 0) = 1 /\ Bit(pre.status[0], 2) = 1
    /\ local.ret # 0

(* ------------------------------------------------------------------ *)
MultiStopFns == StopFns \ {"SND_stopPlay_PCM"}
StopBlock(c) == (16 + 4 * c)..(16 + 4 * c + 3)

\* C13: stopPlay(c) of a multi-channel driver changes nothing but the stop
\* state of channel c: the play and loop bits of the other channels, every
\* parameter byte outside the stop block of c (the start blocks, that of c
\* included, the other stop blocks, the volume bytes), the command byte and
\* the song bytes are as the call found them; the four bytes of the stop
\* block of c (parameters + 0x10 + 4c) are the ones written.
C13_StopFrame ==
    ((busHeld \/ returned) /\ op.fn \in MultiStopFns) =>
        /\ \A o \in 0..(ParamsSize - 1) :
              o \notin StopBlock(op.channel) => params[o] = pre.params[o]
        /\ \A i \in 0..7 :
              i # op.channel => /\ Bit(status[0], i) = Bit(pre.status[0], i)
                                /\ Bit(status[1], i) = Bit(pre.status[1], i)
        /\ command = pre.command /\ mvs = pre.mvs /\ tfm = pre.tfm
        /\ \A i \in 1..Len(log) :
              (log[i].ev = "write" /\ log[i].reg = "params") =>
                  log[i].off \in StopBlock(op.channel)
        /\ returned => \A o \in StopBlock(op.channel) : Writes("params", o) # {}

\* channel 1 stopped while channel 0 plays a looping sample: the bits and the
\* start parameters of channel 0 are still there
C13_Witness ==
    /\ returned /\ op.fn \in MultiStopFns /\ op.channel = 1
    /\ Bit(pre.status[0], 0) = 1 /\ Bit(status[0], 0) = 1
    /\ Bit(pre.status[1], 0) = 1 /\ Bit(status[1], 0) = 1
    /\ params[0] # 0 /\ params[16 + 4] # 0

(* ------------------------------------------------------------------ *)
\* the loop bit the callers' last request for a channel stands for
LoopAsked(a) == IF a \in {Never, Stopped} THEN 0 ELSE IF a # 0 THEN 1 ELSE 0

\* C14: whenever the window can be observed (no call holds the bus), the loop
\* bit of every channel c is the loop flag of the last startPlay that
\* targeted c (non-zero counts as 1), or 0 if stopPlay(c) came later or no
\* startPlay targeted c yet; the co-processor steps (taking a command, end of
\* sample), isPlaying, setVolume, getVolume and the calls on other channels
\* leave it alone. The other bits of the loop byte stay 0.
C14_LoopBitIsShadow ==
    ~busHeld =>
        /\ \A c \in Channels : Bit(status[1], c) = LoopAsked(asked.play[c])
        /\ status[1] < 16

\* a looping sample was started on a channel, the co-processor took the
\* command and the sample ended: the play bit is clear, the loop bit still set
C14_Witness ==
    /\ pc = "idle"
    /\ \E c \in Channels :
          /\ asked.play[c] = 2
          /\ Bit(command, c) = 0 /\ Bit(status[0], c) = 0
          /\ Bit(status[1], c) = 1

(* ------------------------------------------------------------------ *)
\* the play mode the callers' last MVS request stands for
MvsAsked(a) ==
    IF a \in {Never, Stopped} THEN SOUND_MVS_SILENCE
    ELSE IF a # 0 THEN SOUND_MVS_LOOP ELSE SOUND_MVS_ONCE
WriteOffsets(reg) ==
    LET W == SelectSeq(log, LAMBDA e : e.ev = "write" /\ e.reg = reg)
    IN  [i \in 1..Len(W) |-> W[i].off]

\* C15: MVS startPlay leaves the low three bytes of the song address, low
\* byte first, at offsets 0..2 and then the play mode at offset 3 (loop when
\* loop is non-zero, once otherwise); stopPlay writes silence into that byte
\* and nothing else; isPlaying returns the low two bits of that byte, which is
\* the mode of the last startPlay, or silence after stopPlay.
C15_MvsBytes ==
    /\ (returned /\ op.fn = "SND_startPlay_MVS") =>
          /\ mvs[0] = op.sample.lo % 256
          /\ mvs[1] = (op.sample.lo \div 256) % 256
          /\ mvs[2] = op.sample.hi % 256
          /\ mvs[3] = (IF op.loop = 0 THEN SOUND_MVS_ONCE ELSE SOUND_MVS_LOOP)
          /\ WriteOffsets("mvs") = <<0, 1, 2, 3>>
    /\ (returned /\ op.fn = "SND_stopPlay_MVS") =>
          /\ mvs = [pre.mvs EXCEPT ![3] = SOUND_MVS_SILENCE]
          /\ WriteOffsets("mvs") = <<3>>
    /\ (returned /\ op.fn = "SND_isPlaying_MVS") =>
          /\ local.ret = pre.mvs[3] % 4
          /\ local.ret = MvsAsked(asked.mvs)
          /\ mvs = pre.mvs

\* a looping song was started and the query returned the loop mode
C15_Witness ==
    /\ returned /\ op.fn = "SND_isPlaying_MVS"
    /\ asked.mvs = 2
    /\ local.ret = SOUND_MVS_LOOP
    /\ <<mvs[0], mvs[1], mvs[2]>> = <<128, 52, 18>>

(* ------------------------------------------------------------------ *)
\* every event of kind a in the log comes before every event of kind b
Before(A, B) == \A i \in A, j \in B : i < j
TfmWrites == {i \in 1..Len(log) : log[i].ev = "write" /\ log[i].reg = "tfm"}

\* C16: in TFM startPlay the song-address writes are all done and the bus is
\* released before the driver is loaded; the load is followed by Z80_startReset
\* and then Z80_endReset on every call, also when the TFM driver was loaded
\* already; the command byte is not written; the Z80 is held in reset only
\* between these two statements, and no call of another function resets it.
C16_TfmResetCycle ==
    /\ op.fn = "SND_startPlay_TFM" =>
          /\ Before(TfmWrites, Idx("release"))
          /\ Before(Idx("release"), Idx("load"))
          /\ Before(Idx("load"), Idx("startReset"))
          /\ Before(Idx("startReset"), Idx("endReset"))
          /\ \A i \in 1..Len(log) : log[i].reg # "command"
          /\ busHeld => command = pre.command
          /\ z80reset <=> pc = "endReset"
          /\ returned =>
                /\ Cardinality(TfmWrites) = 4
                /\ \A e \in {"acquire", "release", "load", "startReset", "endReset"} :
                      Cardinality(Idx(e)) = 1
    /\ op.fn # "SND_startPlay_TFM" =>
          /\ ~z80reset
          /\ Idx("startReset") = {} /\ Idx("endReset") = {}

\* the TFM driver was loaded already when the call started: nothing uploaded,
\* the reset cycle done all the same
C16_Witness ==
    /\ returned /\ op.fn = "SND_startPlay_TFM"
    /\ Idx("reload") = {}
    /\ Idx("startReset") # {} /\ Idx("endReset") # {}
    /\ driver = Z80_DRIVER_TFM

(* ------------------------------------------------------------------ *)
CommandAccesses(e) ==
    {i \in 1..Len(log) : log[i].ev = e /\ log[i].reg = "command"}
\* the channel a startPlay call works on
StartChannel == IF op.fn = "SND_startPlay_PCM" THEN 0 ELSE local.ch

\* C17 as stated: no facade function reads the command byte, and the value
\* startPlay leaves in it depends on the channel alone (it is the value left
\* from an empty command byte, whatever the byte held before).
C17_CommandWriteOnly ==
    /\ CommandAccesses("read") = {}
    /\ (returned /\ op.fn \in StartFns) => command = Pow2(StartChannel)

\* C17, amended: startPlay reads the command byte once and writes it back
\* with the play bit of its channel added, so the value it leaves is the
\* earlier content with that bit set: it depends on the channel and on the
\* commands still pending; no other facade function reads or writes the byte.
C17_CommandReadModifyWrite ==
    /\ (returned /\ op.fn \in StartFns) =>
          /\ command = WithBit(pre.command, StartChannel)
          /\ Cardinality(CommandAccesses("read")) = 1
          /\ Cardinality(CommandAccesses("write")) = 1
          /\ Before(CommandAccesses("read"), CommandAccesses("write"))
    /\ op.fn \notin StartFns =>
          /\ CommandAccesses("read") = {} /\ CommandAccesses("write") = {}
          /\ busHeld => command = pre.command

\* startPlay found the command of another channel pending and left both bits
C17_Witness ==
    /\ returned /\ op.fn \in StartFns
    /\ pre.command # 0 /\ Bit(pre.command, StartChannel) = 0
    /\ command = pre.command + Pow2(StartChannel)

(* ------------------------------------------------------------------ *)
\* what holds all along a call: the play status byte is read at most once,
\* the automatic scan stops within the channels of the driver, also when
\* every play bit is set
C18_Bounded ==
    /\ Cardinality(StatusReads) <= 1
    /\ \A n \in {2, 4} : ScanFree(255, 0, n) <= n
    /\ (AutoStart /\ Sampled) =>
          /\ ScanFree(local.status, 0, NumChannels(op.fn)) <= NumChannels(op.fn)
          /\ local.ch < NumChannels(op.fn)

\* C18: every facade call returns, whatever the co-processor does or does
\* not do (the collaborators being assumed to return): no call waits for a
\* status bit, a call reads the play status byte at most once, and the
\* automatic channel scan does at most N iterations.
C18_EveryCallReturns ==
    /\ []C18_Bounded
    /\ (pc # "idle") ~> (pc = "idle")

\* an automatic-channel startPlay found the first channel playing, scanned
\* past it and returned
C18_Witness ==
    /\ returned /\ AutoStart
    /\ Bit(local.status, 0) = 1
    /\ local.ch = 1

(* ------------------------------------------------------------------ *)
\* the conversion has ended, by a return or by an exception
WavDone == wav.pc = "done"
\* resample() returned null / returned a stream
NoStream     == wav.resampledInput = "null"
StreamExists == wav.resampledInput \in {"open", "closed"}
\* bytes the reads delivered
RECURSIVE SumOf(_)
SumOf(q) == IF q = <<>> THEN 0 ELSE Head(q) + SumOf(Tail(q))

StopChannel == IF op.fn = "SND_stopPlay_PCM" THEN 0 ELSE op.channel

\* C20 (the functions' own comments: "No effect if no sample was currently
\* playing"): when stopPlay(c) finds the play bit of c clear, with its driver
\* loaded already, the register window is the same after the call as before.
C20_StopIdleNoEffect ==
    (/\ returned /\ op.fn \in StopFns
     /\ Idx("reload") = {}
     /\ Bit(pre.status[0], StopChannel) = 0) =>
        win = <<pre.command, pre.status, pre.params, pre.mvs, pre.tfm>>

(* ------------------------------------------------------------------ *)
\* C21 as stated: one driver is loaded at every point, and no query, start,
\* stop or volume call changes which one: no call uploads another firmware.
C21_NoImplicitSwitch ==
    /\ driver \in Drivers
    /\ Idx("reload") = {}

\* C21, amended: one driver is loaded at every point; it changes only in
\* the Z80_loadDriver statement of a facade function, which every function
\* executes, and then to the driver of that function: a query, start, stop
\* or volume call of another driver than the loaded one switches the
\* firmware as a side effect. Co-processor steps, the caller's entering a
\* function and the other statements leave the loaded driver alone.
C21_SwitchOnlyByLoadStatement ==
    /\ [](driver \in Drivers)
    /\ [][driver' # driver =>
            /\ pc = "load"
            /\ driver' = DriverOf(op.fn)
            /\ \E i \in 1..Len(log') : log'[i].ev = "reload"]_vars

\* a query of the MVS driver found another driver loaded and replaced it
C21_Witness ==
    /\ returned /\ op.fn = "SND_isPlaying_MVS"
    /\ Idx("reload") # {}
    /\ driver = Z80_DRIVER_MVS

(* ------------------------------------------------------------------ *)
\* the caller enters a function / the step uploads a firmware
Entering  == pc = "idle" /\ pc' # "idle"
Uploading == \E i \in 1..Len(log') : i > Len(log) /\ log'[i].ev = "reload"

\* C22: from the return of a function until the Z80_loadDriver statement of
\* the next call, the loaded driver is the one of the function that
\* returned; so a call that follows a call of its own driver starts with its
\* driver loaded, and a firmware is uploaded only by a Z80_loadDriver
\* statement that finds another driver than its own: in a run of calls of
\* one driver, only the first can upload.
C22_LoadedDriverFollowsCalls ==
    /\ []((pc = "idle" /\ nops > 0) => driver = DriverOf(op.fn))
    /\ []((Idx("load") # {}) => driver = DriverOf(op.fn))
    /\ [][(Entering /\ nops > 0 /\ DriverOf(op'.fn) = DriverOf(op.fn)) =>
             driver' = DriverOf(op'.fn)]_vars
    /\ [][Uploading => (pc = "load" /\ driver # DriverOf(op.fn))]_vars
    /\ [][(pc # "load") => driver' = driver]_vars

\* the TFM start called twice in a row: the second call uploads nothing
C22_Witness ==
    /\ returned /\ nops = 2
    /\ op.fn = "SND_startPlay_TFM"
    /\ Idx("load") # {} /\ Idx("reload") = {}
    /\ driver = Z80_DRIVER_TFM

(* ------------------------------------------------------------------ *)
\* C23 (the little-endian layout the song stores of SND_startPlay_TFM are
\* written for): when the TFM startPlay returns, the bytes at offsets 0, 1, 2
\* and 3 of the block at 0xA01FFC hold addr & 0xFF, (addr >> 8) & 0xFF,
\* (addr >> 16) & 0xFF and (addr >> 24) & 0xFF of the song address.
C23_TfmAddressBytes ==
    (returned /\ op.fn = "SND_startPlay_TFM") =>
        /\ tfm[0] = op.sample.lo % 256
        /\ tfm[1] = (op.sample.lo \div 256) % 256
        /\ tfm[2] = op.sample.hi % 256
        /\ tfm[3] = (op.sample.hi \div 256) % 256

(* ------------------------------------------------------------------ *)
WindowAccesses == {i \in 1..Len(log) : log[i].ev \in Accesses}
\* the statements of startPlay that follow the status sample, bus still held
AfterSample == pc \in {"params", "command", "loop", "release"}
SomeIdle(st, n) == \E i \in 0..(n - 1) : Bit(st, i) = 0

\* C24: in every interleaving with the co-processor steps, the status sample,
\* the parameter write, the command pulse and the loop update of one
\* automatic-channel startPlay lie between its single bus acquisition and its
\* single release, and no co-processor step changes the window in between
\* (the window changes without a logged access of the call only while the
\* bus is free): the play status is still the sampled one at every statement
\* up to the return, so when a channel was idle at the sample, the channel
\* that gets the pulse is idle when the pulse is written.
C24_StartIsOneCriticalSection ==
    /\ [](AutoStart =>
            /\ Cardinality(Idx("acquire")) <= 1 /\ Cardinality(Idx("release")) <= 1
            /\ Before(Idx("acquire"), WindowAccesses)
            /\ Before(WindowAccesses, Idx("release"))
            /\ \A i \in WindowAccesses : log[i].held
            /\ (AfterSample \/ returned) =>
                  /\ status[0] = local.status
                  /\ SomeIdle(local.status, NumChannels(op.fn)) =>
                        Bit(status[0], local.ch) = 0
            /\ returned => /\ Cardinality(Idx("acquire")) = 1
                           /\ Bit(command, local.ch) = 1)
    /\ [][(win' # win /\ log' = log) => (~busHeld /\ ~busHeld')]_vars
    /\ [][(busHeld /\ busHeld' /\ op.fn \in StartFns) => status'[0] = status[0]]_vars

\* channels 0 and 1 play, the scan chose channel 2 and the pulse has just been
\* written, the bus still held and channel 2 still idle
C24_Witness ==
    /\ AutoStart /\ pc = "loop" /\ busHeld
    /\ local.status = 3 /\ local.ch = 2
    /\ Bit(status[0], 2) = 0 /\ Bit(command, 2) = 1

(* ------------------------------------------------------------------ *)
StartBlock(c) == (4 * c)..(4 * c + 3)

\* C25: startPlay of a multi-channel driver, with c the channel it resolved
\* (given or chosen by the scan), changes only the four start-parameter bytes
\* of c, bit c of the command byte and bit c of the loop byte: the play
\* status byte, every parameter byte outside the start block of c (the other
\* start blocks, the stop blocks, the volume bytes), the command and loop
\* bits of the other channels and the song bytes are as the call found them.
C25_StartFrame ==
    ((busHeld \/ returned) /\ op.fn \in AutoFns /\ Sampled) =>
        /\ status[0] = pre.status[0]
        /\ \A o \in 0..(ParamsSize - 1) :
              o \notin StartBlock(local.ch) => params[o] = pre.params[o]
        /\ \A i \in 0..7 :
              i # local.ch => /\ Bit(command, i) = Bit(pre.command, i)
                              /\ Bit(status[1], i) = Bit(pre.status[1], i)
        /\ mvs = pre.mvs /\ tfm = pre.tfm
        /\ \A i \in 1..Len(log) :
              log[i].ev = "write" =>
                  \/ log[i].reg = "params" /\ log[i].off \in StartBlock(local.ch)
                  \/ log[i].reg = "command"
                  \/ log[i].reg = "status" /\ log[i].off = 1
        /\ returned =>
              /\ \A o \in StartBlock(local.ch) : Writes("params", o) # {}
              /\ Bit(command, local.ch) = 1
              /\ Bit(status[1], local.ch) = (IF op.loop = 0 THEN 0 ELSE 1)

\* channel 2 started while the looping start of channel 0 is still pending:
\* the command, the loop bit and the parameters of channel 0 are kept
C25_Witness ==
    /\ returned /\ op.fn = "SND_startPlay_4PCM" /\ local.ch = 2
    /\ pre.command = 1 /\ command = 5
    /\ Bit(pre.status[1], 0) = 1 /\ Bit(status[1], 0) = 1
    /\ pre.params[0] # 0 /\ params[0] = pre.params[0]

====
